---- MODULE Spec2Model ----
(***************************************************************************)
(* A model of can2040.c, the software CAN bus controller for the rp2040.   *)
(*                                                                         *)
(* 32-bit words (uint32_t) are pairs of 16-bit halves with bitwise         *)
(* operators over bit indexes 0..31 (0 the least significant): shifts drop *)
(* the bits that leave the word exactly as the C operators do.  Small      *)
(* quantities (field widths, cursors, the unstuffed field, the queue       *)
(* counters) are naturals.                                                 *)
(***************************************************************************)
EXTENDS Integers, Sequences, FiniteSets, TLC

(***************************************************************************)
(* uint32_t arithmetic                                                     *)
(***************************************************************************)
WordBits == 32

Pow2(n) == 2 ^ n

Half == 65536   \* 2^16

\* A word is the pair <<high half, low half>> of its 16-bit halves
Zero32 == <<0, 0>>

\* The word holding the natural n (n < 2^31)
Word(n) == <<n \div Half, n % Half>>

\* Bit i of w, 0 beyond the word: (w >> i) & 1
BitAt(w, i) ==
    IF i < 16 THEN (w[2] \div Pow2(i)) % 2
    ELSE IF i < WordBits THEN (w[1] \div Pow2(i - 16)) % 2
    ELSE 0

\* w << n
Shl(w, n) ==
    IF n = 0 THEN w
    ELSE IF n >= WordBits THEN Zero32
    ELSE IF n >= 16 THEN <<(w[2] * Pow2(n - 16)) % Half, 0>>
    ELSE <<(w[1] * Pow2(n) + (w[2] \div Pow2(16 - n))) % Half, (w[2] * Pow2(n)) % Half>>

\* w >> n
Shr(w, n) ==
    IF n = 0 THEN w
    ELSE IF n >= WordBits THEN Zero32
    ELSE IF n >= 16 THEN <<0, w[1] \div Pow2(n - 16)>>
    ELSE <<w[1] \div Pow2(n), (w[2] \div Pow2(n)) + (w[1] % Pow2(n)) * Pow2(16 - n)>>

\* a & b, bit by bit
RECURSIVE AndBits(_, _)
AndBits(a, b) ==
    IF a = 0 \/ b = 0 THEN 0
    ELSE (a % 2) * (b % 2) + 2 * AndBits(a \div 2, b \div 2)

\* a & b for bytes, tabulated
And8 == [a \in 0 .. 255 |-> [b \in 0 .. 255 |-> AndBits(a, b)]]

\* a & b on 16-bit halves
And16(a, b) == And8[a \div 256][b \div 256] * 256 + And8[a % 256][b % 256]

BAnd(a, b) == <<And16(a[1], b[1]), And16(a[2], b[2])>>

BOr(a, b) == <<a[1] + b[1] - And16(a[1], b[1]), a[2] + b[2] - And16(a[2], b[2])>>

BXor(a, b) ==
    <<a[1] + b[1] - 2 * And16(a[1], b[1]), a[2] + b[2] - 2 * And16(a[2], b[2])>>

BNot(a) == <<Half - 1 - a[1], Half - 1 - a[2]>>

\* (1 << n) - 1
LowMask(n) == IF n <= 16 THEN <<0, Pow2(n) - 1>> ELSE <<Pow2(n - 16) - 1, Half - 1>>

\* 1 << n
OneBit(n) == IF n < 16 THEN <<0, Pow2(n)>> ELSE <<Pow2(n - 16), 0>>

\* (w >> lo) & ((1 << n) - 1) as a natural (n < 31)
Field(w, lo, n) ==
    LET s == Shr(w, lo)
    IN IF n <= 16 THEN s[2] % Pow2(n) ELSE (s[1] % Pow2(n - 16)) * Half + s[2]

\* b ^ (b >> 1): a 1 marks a transition between adjacent bits
Edges(b) == BXor(b, Shr(b, 1))

(***************************************************************************)
(* CRC calculation                                                         *)
(***************************************************************************)
CrcPoly == Word(17817)   \* 0x4599

RECURSIVE crcbits(_, _, _)
crcbits(crc, data, count) ==
    IF count = 0 THEN crc
    ELSE LET i == count - 1
             bit == (data \div Pow2(i)) % 2
         IN IF (BitAt(crc, 14) + bit) % 2 = 1
            THEN crcbits(BXor(Shl(crc, 1), CrcPoly), data, count - 1)
            ELSE crcbits(Shl(crc, 1), data, count - 1)

(***************************************************************************)
(* Bit stuffing                                                            *)
(***************************************************************************)
RECURSIVE bitstuff_loop(_, _, _)
bitstuff_loop(b, i, count) ==
    IF i < 0 THEN [b |-> b, count |-> count]
    ELSE IF Field(Edges(b), i, 4) = 0
         THEN LET mask == LowMask(i + 1)
                  low == BAnd(b, mask)
                  high == Shl(BAnd(b, BNot(Shr(mask, 1))), 1)
                  nb == BXor(BXor(high, low), OneBit(i))
              IN bitstuff_loop(nb, i - 4, count + 1)
         ELSE bitstuff_loop(b, i - 1, count)

\* bitstuff(&b, num_bits): the stuffed word and the new bit count
bitstuff(b, num_bits) == bitstuff_loop(b, num_bits - 1, num_bits)

StuffedWords == 5   \* words of stuffed_data in a transmit slot

\* struct bitstuffer_s bs = { 1, 0, qt->stuffed_data, 0 } over a zeroed buffer
bs_init == [prev_stuffed |-> Word(1), bitpos |-> 0,
            buf |-> [w \in 0 .. (StuffedWords - 1) |-> Zero32], crc |-> Zero32]

bs_pushraw(bs, data, count) ==
    LET bitpos == bs.bitpos
        wp == bitpos \div 32
        bitused == bitpos % 32
        bitavail == 32 - bitused
        nbuf == IF bitavail >= count
                THEN [bs.buf EXCEPT ![wp] = BOr(@, Shl(data, bitavail - count))]
                ELSE [bs.buf EXCEPT ![wp] = BOr(@, Shr(data, count - bitavail)),
                                    ![wp + 1] = BOr(@, Shl(data, 32 - (count - bitavail)))]
    IN [bs EXCEPT !.buf = nbuf, !.bitpos = bitpos + count]

\* Faulty variant: the stuffed bits of the earlier chunks are not carried over
bs_push_noprev(bs, data0, count) ==
    LET data == data0 % Pow2(count)
        crc == crcbits(bs.crc, data, count)
        stuf0 == BOr(Shl(bs.prev_stuffed, count), Word(data))
        st == bitstuff(stuf0, count)
    IN bs_pushraw([bs EXCEPT !.crc = crc], st.b, st.count)

\* Faulty variant: the crc is not accumulated over the pushed bits
bs_push_nocrc(bs, data0, count) ==
    LET data == data0 % Pow2(count)
        stuf0 == BOr(Shl(bs.prev_stuffed, count), Word(data))
        st == bitstuff(stuf0, count)
        b1 == bs_pushraw(bs, st.b, st.count)
    IN [b1 EXCEPT !.prev_stuffed = st.b]

bs_push(bs, data0, count) ==
    LET data == data0 % Pow2(count)
        crc == crcbits(bs.crc, data, count)
        stuf0 == BOr(Shl(bs.prev_stuffed, count), Word(data))
        st == bitstuff(stuf0, count)
        b1 == bs_pushraw([bs EXCEPT !.crc = crc], st.b, st.count)
    IN [b1 EXCEPT !.prev_stuffed = st.b]

bs_words(bs) == (bs.bitpos + 31) \div 32

\* bs_finalize pads the last word with recessive bits
bs_finalize(bs) ==
    LET words == bs_words(bs)
        extra == words * 32 - bs.bitpos
    IN IF extra > 0
       THEN [bs EXCEPT !.buf[words - 1] = BOr(@, LowMask(extra))]
       ELSE bs

(***************************************************************************)
(* Frames and transmit slots                                               *)
(***************************************************************************)
MaxDataLen == 8   \* bytes of payload in struct can2040_msg

NoData == [i \in 1 .. MaxDataLen |-> 0]

\* struct can2040_msg: d1[i] is byte i-1 of the union, d4[] its two words
Msg(addr, len, d1) == [addr |-> addr, data_len |-> len, d1 |-> d1]

ZeroMsg == Msg(0, 0, NoData)

\* msg.d4[k] (k = 0, 1) as its four bytes, least significant first
d4(msg, k) == <<msg.d1[4 * k + 1], msg.d1[4 * k + 2], msg.d1[4 * k + 3], msg.d1[4 * k + 4]>>

\* struct can2040_transmit after memset(cd, 0, sizeof(*cd))
ZeroSlot == [msg |-> ZeroMsg, crc |-> 0,
             stuffed_data |-> [w \in 0 .. (StuffedWords - 1) |-> Zero32],
             stuffed_words |-> 0]

\* can2040_transmit, "Copy msg into qt->msg"
transmit_msg(msg) ==
    LET len == IF msg.data_len > 8 THEN 8 ELSE msg.data_len
    IN Msg(msg.addr % 2048, len,
           [i \in 1 .. MaxDataLen |-> IF i <= len THEN msg.d1[i] ELSE 0])

RECURSIVE bs_push_bytes(_, _, _, _)
bs_push_bytes(bs, d1, i, len) ==
    IF i >= len THEN bs
    ELSE bs_push_bytes(bs_push(bs, d1[i + 1], 8), d1, i + 1, len)

\* The bit stuffer after the header and the data bytes of a frame with the
\* 19 header bits hdr
bs_body(hdr, d1, len) == bs_push_bytes(bs_push(bs_init, hdr, 19), d1, 0, len)

\* can2040_transmit, "Calculate crc and stuff bits": the finished stuffer
bs_frame(hdr, d1, len) ==
    LET b1 == bs_body(hdr, d1, len)
        crc == Field(b1.crc, 0, 15)
        b2 == bs_push(b1, crc, 15)
        b3 == bs_pushraw(b2, Word(1), 1)
    IN bs_finalize(b3)

\* A frame as another node sends it with a corrupted crc field
bs_frame_badcrc(hdr, d1, len) ==
    LET b1 == bs_body(hdr, d1, len)
        crc == Field(BXor(b1.crc, Word(1)), 0, 15)
        b2 == bs_push(b1, crc, 15)
        b3 == bs_pushraw(b2, Word(1), 1)
    IN bs_finalize(b3)

\* The slot can2040_transmit fills for the (sanitised) message qm
transmit_slot(qm) ==
    LET hdr == qm.addr * 128 + qm.data_len
        bs == bs_frame(hdr, qm.d1, qm.data_len)
    IN [msg |-> qm,
        crc |-> Field(bs_body(hdr, qm.d1, qm.data_len).crc, 0, 15),
        stuffed_data |-> bs.buf,
        stuffed_words |-> bs_words(bs)]

(***************************************************************************)
(* Bit unstuffing (struct can2040_bitunstuffer bu)                         *)
(***************************************************************************)
unstuf_add_bits(bu, data, count) ==
    [bu EXCEPT !.stuffed_bits = BOr(Shl(bu.stuffed_bits, count), Word(data % Pow2(count))),
               !.count_stuff = count]

unstuf_set_count(bu, count) ==
    [bu EXCEPT !.unstuffed_bits = 0, !.count_unstuff = count]

unstuf_clear_state(bu) ==
    LET sb == bu.stuffed_bits
        cs == bu.count_stuff
        re == Shr(Edges(sb), cs)
    IN IF BitAt(re, 0) = 0 /\ Field(re, 0, 4) # 0
       THEN [bu EXCEPT !.stuffed_bits = BXor(sb, OneBit(cs))]
       ELSE bu

\* ub | (bit << pos)
OrBit(ub, bit, pos) ==
    IF (ub \div Pow2(pos)) % 2 = 1 THEN ub ELSE ub + bit * Pow2(pos)

RECURSIVE unstuf_pull_loop(_, _, _, _, _)
unstuf_pull_loop(sb, edges, ub, cs, cu) ==
    IF cu = 0 THEN [ret |-> 0, ub |-> ub, cs |-> cs, cu |-> cu]
    ELSE IF cs = 0 THEN [ret |-> 1, ub |-> ub, cs |-> cs, cu |-> cu]
    ELSE LET c1 == cs - 1
         IN IF Field(edges, c1 + 1, 4) # 0
            THEN unstuf_pull_loop(sb, edges, OrBit(ub, BitAt(sb, c1), cu - 1), c1, cu - 1)
            ELSE IF Field(edges, c1, 5) = 0
                 THEN [ret |-> IF BitAt(sb, c1) = 1 THEN -1 ELSE -2,
                       ub |-> ub, cs |-> c1, cu |-> cu]
                 ELSE unstuf_pull_loop(sb, edges, ub, c1, cu)

\* unstuf_pull_bits: the updated unstuffer and the return value (0 field
\* complete, 1 need more data, -1 six recessive bits, -2 six dominant bits)
unstuf_pull_bits(bu) ==
    LET r == unstuf_pull_loop(bu.stuffed_bits, Edges(bu.stuffed_bits),
                              bu.unstuffed_bits, bu.count_stuff, bu.count_unstuff)
    IN [bu |-> [bu EXCEPT !.unstuffed_bits = r.ub, !.count_stuff = r.cs,
                          !.count_unstuff = r.cu],
        ret |-> r.ret]

(***************************************************************************)
(* The controller (struct can2040 cd) with the PIO registers it drives.    *)
(* cd.cb lists the callbacks (cd->rx_cb) invoked by the running handler,    *)
(* cd.cb_pull the value of tx_pull_pos at each of these invocations.       *)
(***************************************************************************)
QueueSize == 4   \* ARRAY_SIZE(cd->tx_queue)

MS_START == "START"
MS_DATA == "DATA"
MS_CRC == "CRC"
MS_ACK == "ACK"
MS_EOF == "EOF"
MS_DISCARD == "DISCARD"

ParseStates == {MS_START, MS_DATA, MS_CRC, MS_ACK, MS_EOF, MS_DISCARD}

TxOff == [mode |-> "off", data |-> <<>>]

Notify(cd, kind, msg) ==
    [cd EXCEPT !.cb = Append(@, [kind |-> kind, msg |-> msg]),
               !.cb_pull = Append(@, cd.tx_pull_pos)]

\* pio_tx_reset restarts SM3 and drains its fifo; pio_tx_send then queues
\* the words and enables SM3, which waits for bus idle (irq 0)
pio_tx_send(cd, data, count) ==
    [cd EXCEPT !.pio_tx = [mode |-> "frame", data |-> [i \in 1 .. count |-> data[i - 1]]]]

pio_tx_cancel(cd) == [cd EXCEPT !.pio_tx = TxOff]

\* pio_ack_inject: SM3 waits for irq 2 with one dominant bit queued, SM2
\* holds the match key
pio_ack_inject(cd) ==
    [cd EXCEPT !.pio_tx = [mode |-> "ack", data |-> <<>>], !.pio_ack = TRUE]

pio_ack_cancel(cd) == [cd EXCEPT !.pio_ack = FALSE]

pio_rx_check_stall(cd) == cd.pio_rxstall

pio_sync_enable_idle_irq(cd) == [cd EXCEPT !.pio_inte0 = TRUE]

\* Faulty variant: inte0 is left as it is
pio_sync_disable_idle_irq_kept(cd) == cd

pio_sync_disable_idle_irq(cd) == [cd EXCEPT !.pio_inte0 = FALSE]

\* pio_sync_setup: SM0 jumps to sync_entry, which reloads its bit counter
pio_sync_setup(cd) == [cd EXCEPT !.pio_sync_free = FALSE]

\* pio_sm_setup: all four state machines restarted, fdebug cleared, SM3 off
pio_sm_setup(cd) ==
    pio_sync_setup([cd EXCEPT !.pio_tx = TxOff, !.pio_ack = FALSE, !.pio_rxstall = FALSE])

\* rx_cb(cd, CAN2040_ID_ERROR | error_code, &msg) with a zeroed msg
report_error(cd, error_code) ==
    [cd EXCEPT !.cb = Append(@, [kind |-> "ERROR", msg |-> ZeroMsg, code |-> error_code]),
               !.cb_pull = Append(@, cd.tx_pull_pos)]

report_rx_msg(cd) == Notify(cd, "RX", cd.parse_msg)

report_tx_msg(cd, msg) == Notify(cd, "TX", msg)

report_tx_fail(cd, msg) == Notify(cd, "TX_FAIL", msg)

(***************************************************************************)
(* Transmit                                                                *)
(***************************************************************************)
CancelLimit == 32   \* tx_do_schedule gives up when cancel_count exceeds it

tx_qpos(pos) == pos % QueueSize

tx_do_schedule(cd) ==
    IF cd.in_transmit = 1 \/ cd.tx_push_pos = cd.tx_pull_pos THEN cd
    ELSE LET c1 == IF cd.cancel_count > CancelLimit
                   THEN report_tx_fail(
                            [cd EXCEPT !.cancel_count = 0,
                                       !.tx_pull_pos = cd.tx_pull_pos + 1],
                            cd.tx_queue[tx_qpos(cd.tx_pull_pos)].msg)
                   ELSE cd
             qt == c1.tx_queue[tx_qpos(c1.tx_pull_pos)]
         IN pio_tx_send([c1 EXCEPT !.in_transmit = 1], qt.stuffed_data, qt.stuffed_words)

tx_cancel(cd) ==
    pio_tx_cancel([cd EXCEPT !.in_transmit = 0, !.cancel_count = cd.cancel_count + 1])

\* The comparison of tx_check_self_transmit
tx_match(cd) ==
    LET qt == cd.tx_queue[tx_qpos(cd.tx_pull_pos)]
        pm == cd.parse_msg
    IN /\ Word(qt.crc) = cd.parse_crc
       /\ qt.msg.addr = pm.addr
       /\ qt.msg.data_len = pm.data_len
       /\ d4(qt.msg, 0) = d4(pm, 0)
       /\ d4(qt.msg, 1) = d4(pm, 1)

\* tx_check_self_transmit: the controller after the call and its result
tx_check_self_transmit(cd) ==
    IF cd.in_transmit = 0 THEN [cd |-> cd, ret |-> 0]
    ELSE IF tx_match(cd) THEN [cd |-> cd, ret |-> 1]
    ELSE [cd |-> tx_cancel(cd), ret |-> 0]

\* Faulty variant: the head frame is reported but stays at the head
tx_finalize_keep(cd) ==
    LET c1 == tx_cancel(cd)
    IN report_tx_msg([c1 EXCEPT !.cancel_count = 0], c1.tx_queue[tx_qpos(c1.tx_pull_pos)].msg)

tx_finalize(cd) ==
    LET c1 == tx_cancel(cd)
    IN report_tx_msg([c1 EXCEPT !.cancel_count = 0, !.tx_pull_pos = c1.tx_pull_pos + 1],
                     c1.tx_queue[tx_qpos(c1.tx_pull_pos)].msg)

(***************************************************************************)
(* Input state tracking                                                    *)
(***************************************************************************)
SetCount(cd, count) == [cd EXCEPT !.unstuf = unstuf_set_count(@, count)]

data_state_go_discard(cd) ==
    pio_sync_enable_idle_irq(
        tx_cancel(SetCount([cd EXCEPT !.parse_state = MS_DISCARD], 8)))

data_state_go_error(cd) == data_state_go_discard(cd)

\* The check of the final eof bits in data_state_go_idle
eof_ok(bu) ==
    (bu.unstuffed_bits \div Pow2(bu.count_unstuff)) + 1 = Pow2(6 - bu.count_unstuff)

Ones32 == BNot(Zero32)

\* Faulty variant: the parser state is not set back to MS_START
data_state_go_idle_stay(cd) ==
    IF cd.parse_state = MS_START
    THEN SetCount(cd, 18)
    ELSE SetCount(tx_do_schedule(pio_ack_cancel(pio_sync_disable_idle_irq(cd))), 18)

data_state_go_idle(cd) ==
    IF cd.parse_state = MS_START
    THEN IF cd.unstuf.count_stuff = 0 /\ cd.unstuf.stuffed_bits = Ones32
         THEN \* Counter overflow in "sync" state machine - reset it
              data_state_go_discard([pio_sync_setup(cd) EXCEPT !.unstuf.stuffed_bits = Zero32])
         ELSE SetCount(cd, 18)
    ELSE LET c1 == pio_sync_disable_idle_irq(cd)
             c2 == IF c1.parse_state = MS_EOF /\ eof_ok(c1.unstuf)
                   THEN LET r == tx_check_self_transmit(c1)
                        IN IF r.ret = 1 THEN tx_finalize(r.cd) ELSE report_rx_msg(r.cd)
                   ELSE c1
             c3 == tx_do_schedule(pio_ack_cancel(c2))
         IN SetCount([c3 EXCEPT !.parse_state = MS_START], 18)

data_state_go_crc(cd) ==
    LET c1 == SetCount([cd EXCEPT !.parse_state = MS_CRC], 15)
        c2 == [c1 EXCEPT !.parse_crc = BAnd(@, LowMask(15))]
        r == tx_check_self_transmit(c2)
    IN IF r.ret = 1 THEN r.cd ELSE pio_ack_inject(r.cd)

\* Faulty variant: the dlc of the header is not limited to 8
data_state_update_start_noclamp(cd, data) ==
    IF (data \div Pow2(18)) % 2 # 0 \/ (data \div 16) % 8 # 0
    THEN data_state_go_discard(cd)
    ELSE LET dlc == data % 16
             c1 == [cd EXCEPT !.parse_hdr = data,
                              !.parse_crc = crcbits(Zero32, data, 18),
                              !.parse_msg = Msg((data \div 128) % 2048, dlc, NoData),
                              !.parse_datapos = 0]
         IN pio_sync_enable_idle_irq(
                IF dlc = 0 THEN data_state_go_crc(c1)
                ELSE SetCount([c1 EXCEPT !.parse_state = MS_DATA], 8))

\* Faulty variant: only bit 18 of the header is checked
data_state_update_start_lax(cd, data) ==
    IF (data \div Pow2(18)) % 2 # 0
    THEN data_state_go_discard(cd)
    ELSE LET dlc == IF data % 16 > 8 THEN 8 ELSE data % 16
             c1 == [cd EXCEPT !.parse_hdr = data,
                              !.parse_crc = crcbits(Zero32, data, 18),
                              !.parse_msg = Msg((data \div 128) % 2048, dlc, NoData),
                              !.parse_datapos = 0]
         IN pio_sync_enable_idle_irq(
                IF dlc = 0 THEN data_state_go_crc(c1)
                ELSE SetCount([c1 EXCEPT !.parse_state = MS_DATA], 8))

data_state_update_start(cd, data) ==
    IF (data \div Pow2(18)) % 2 # 0 \/ (data \div 16) % 8 # 0
    THEN \* Not a supported header
         data_state_go_discard(cd)
    ELSE LET rdlc == data % 16
             dlc == IF rdlc > 8 THEN 8 ELSE rdlc
             c1 == [cd EXCEPT !.parse_hdr = data,
                              !.parse_crc = crcbits(Zero32, data, 18),
                              !.parse_msg = Msg((data \div 128) % 2048, dlc, NoData),
                              !.parse_datapos = 0]
             c2 == IF c1.parse_datapos >= dlc
                   THEN data_state_go_crc(c1)
                   ELSE SetCount([c1 EXCEPT !.parse_state = MS_DATA], 8)
         IN pio_sync_enable_idle_irq(c2)

data_state_update_data(cd, data) ==
    LET c1 == [cd EXCEPT !.parse_crc = crcbits(@, data, 8),
                         !.parse_msg.d1[cd.parse_datapos + 1] = data % 256,
                         !.parse_datapos = @ + 1]
    IN IF c1.parse_datapos >= c1.parse_msg.data_len
       THEN data_state_go_crc(c1)
       ELSE SetCount(c1, 8)

\* Faulty variant: the crc field is not compared
data_state_update_crc_unchecked(cd, data) ==
    SetCount([cd EXCEPT !.parse_state = MS_ACK, !.unstuf = unstuf_clear_state(@)], 2)

data_state_update_crc(cd, data) ==
    IF cd.parse_crc # Word(data)
    THEN data_state_go_discard(pio_ack_cancel(cd))
    ELSE SetCount([cd EXCEPT !.parse_state = MS_ACK,
                             !.unstuf = unstuf_clear_state(@)], 2)

\* Faulty variant: the rx fifo stall flag is not consulted
data_state_update_ack_nostall(cd, data) ==
    LET c1 == pio_ack_cancel(cd)
    IN IF data # 2
       THEN report_error(pio_sm_setup(data_state_go_discard(c1)), 0)
       ELSE SetCount([c1 EXCEPT !.parse_state = MS_EOF], 6)

data_state_update_ack(cd, data) ==
    LET c1 == pio_ack_cancel(cd)
    IN IF data # 2
       THEN LET c2 == data_state_go_discard(c1)
            IN IF pio_rx_check_stall(c2)
               THEN report_error(pio_sm_setup(c2), 0)
               ELSE c2
       ELSE SetCount([c1 EXCEPT !.parse_state = MS_EOF], 6)

\* Faulty variant: a field completed in MS_EOF restarts the eof field
data_state_update_eof_again(cd, data) == SetCount(cd, 6)

data_state_update_eof(cd, data) == data_state_go_discard(cd)

\* Faulty variant: the unstuffer is not given a new field length
data_state_update_discard_unarmed(cd, data) ==
    pio_sync_enable_idle_irq(tx_cancel([cd EXCEPT !.parse_state = MS_DISCARD]))

data_state_update_discard(cd, data) == data_state_go_discard(cd)

data_state_update(cd, data) ==
    CASE cd.parse_state = MS_START -> data_state_update_start(cd, data)
      [] cd.parse_state = MS_DATA -> data_state_update_data(cd, data)
      [] cd.parse_state = MS_CRC -> data_state_update_crc(cd, data)
      [] cd.parse_state = MS_ACK -> data_state_update_ack(cd, data)
      [] cd.parse_state = MS_EOF -> data_state_update_eof(cd, data)
      [] cd.parse_state = MS_DISCARD -> data_state_update_discard(cd, data)

(***************************************************************************)
(* The bus seen through the PIO state machines                             *)
(***************************************************************************)
\* The "sync" state machine (set x, 8) samples 9 recessive bits after the
\* last dominant one, then signals bus idle and stops the bit clock
SyncIdleSamples == 9

Ones(n) == [i \in 1 .. n |-> 1]

\* Bit j (0 the first sent) of a list of words shifted out msb first
WordsBit(data, j) == BitAt(data[(j \div 32) + 1], 31 - (j % 32))

WordsBits(data, n) == [j \in 1 .. n |-> WordsBit(data, j - 1)]

RECURSIVE LastZero(_, _)
LastZero(s, i) == IF i = 0 \/ s[i] = 0 THEN i ELSE LastZero(s, i - 1)

\* What the "rx" state machine samples of the bits s put on an idle bus:
\* everything up to the last dominant bit, then SyncIdleSamples recessive bits
Sampled(s) == SubSeq(s, 1, LastZero(s, Len(s))) \o Ones(SyncIdleSamples)

\* A frame on the bus: the stuffed bits through the crc delimiter, then the
\* ack slot (0 when some node acknowledges)
FrameOnBus(data, nbits, ack) == Append(WordsBits(data, nbits), ack)

\* The first eight bits of the wire as the byte the DMA channel delivers
RECURSIVE BitsNat(_, _)
BitsNat(s, n) == IF n = 0 THEN 0 ELSE 2 * BitsNat(s, n - 1) + s[n]

ByteOf(s) == BitsNat(s, 8)

DropBits(s, n) == SubSeq(s, n + 1, Len(s))

(***************************************************************************)
(* Bounds and inputs                                                       *)
(***************************************************************************)
MaxTransmits == 4   \* frames can2040_transmit accepts in a run
MaxEvents == 2      \* frames and disturbances put on the bus in a run

Payload(b) == [i \in 1 .. MaxDataLen |-> IF i = 1 THEN b ELSE 0]

\* The frames the foreground sends, in turn
TxSequence == <<Msg(291, 1, Payload(165)), Msg(292, 0, NoData)>>

TxMsgs == {TxSequence[i] : i \in 1 .. Len(TxSequence)}

\* The message of the call that follows k accepted frames
TxInputs(k) == {TxSequence[(k % Len(TxSequence)) + 1]}

\* A frame on the bus: 19 header bits (sof, id, rtr, ide, r0, dlc), payload
\* and whether its crc field is corrupted
FrameOf(m) ==
    [hdr |-> m.addr * 128 + m.data_len, d1 |-> m.d1, len |-> m.data_len, badcrc |-> FALSE]

ZeroFrame == FrameOf(ZeroMsg)

\* A remote request for id 0 (rtr set)
RtrFrame == [ZeroFrame EXCEPT !.hdr = 64]

\* What other nodes send: the frame and its ack slot (0: acknowledged)
RxFrames ==
    {<<ZeroFrame, 0>>, <<ZeroFrame, 1>>, <<[ZeroFrame EXCEPT !.badcrc = TRUE], 1>>,
     <<RtrFrame, 0>>}

\* Lengths in bytes of the bursts of traffic the parser cannot follow
GarbageLens == {34}

\* The frames that can appear on the bus
BusFrames ==
    {r[1] : r \in RxFrames} \cup {FrameOf(transmit_msg(x)) : x \in TxMsgs} \cup {ZeroFrame}

\* Their stuffed words and stuffed length (through the crc delimiter)
Stuffed ==
    [f \in BusFrames |-> IF f.badcrc THEN bs_frame_badcrc(f.hdr, f.d1, f.len)
                         ELSE bs_frame(f.hdr, f.d1, f.len)]

VARIABLES
    cd,        \* struct can2040 and the PIO/DMA registers
    isr,       \* "rx" while can2040_dma_irq_handler is inside the process_rx loop
    fg,        \* the foreground's position in can2040_transmit and its locals
    wire,      \* bits sampled (or about to be) by the rx state machine, not yet delivered
    bus,       \* number of frames and disturbances put on the bus so far
    accepted,  \* the frames can2040_transmit has published, in order
    reported,  \* the frames of the TX and TX_FAIL callbacks, in order
    gh         \* history of the frame being received and of the head transmission

vars == <<cd, isr, fg, wire, bus, accepted, reported, gh>>

CdZero ==
    [tx_queue |-> [q \in 0 .. (QueueSize - 1) |-> ZeroSlot],
     tx_push_pos |-> 0, tx_pull_pos |-> 0,
     in_transmit |-> 0, cancel_count |-> 0,
     parse_state |-> MS_START, parse_hdr |-> 0, parse_crc |-> Zero32,
     parse_msg |-> ZeroMsg, parse_datapos |-> 0,
     unstuf |-> [stuffed_bits |-> Zero32, count_stuff |-> 0,
                 unstuffed_bits |-> 0, count_unstuff |-> 0],
     pio_tx |-> TxOff, pio_ack |-> FALSE, pio_rxstall |-> FALSE,
     pio_inte0 |-> FALSE, pio_sync_free |-> FALSE, dma_forced |-> FALSE,
     cb |-> <<>>, cb_pull |-> <<>>]

\* can2040_setup, can2040_callback_config, can2040_start
can2040_start(c0) == data_state_go_discard(pio_sm_setup(c0))

FgIdle == [pc |-> "idle", msg |-> ZeroMsg, push |-> 0, ret |-> 0]

\* crc, ack: how the crc and ack fields of the frame being received compared
\* rejected: its header was refused;  ones: recessive bits delivered in a row
\* starts: times the head frame was handed to the tx state machine
\* loaded: queue positions handed to the tx state machine so far
GhZero ==
    [crc |-> "none", ack |-> "none", rejected |-> FALSE, ones |-> 0,
     starts |-> 0, loaded |-> {}]

Init ==
    /\ cd = can2040_start(CdZero)
    /\ isr = "none"
    /\ fg = FgIdle
    /\ wire = Ones(SyncIdleSamples)
    /\ bus = 0
    /\ accepted = <<>>
    /\ reported = <<>>
    /\ gh = GhZero

\* The controller entering a handler: no callback invoked yet
Enter == [cd EXCEPT !.cb = <<>>, !.cb_pull = <<>>]

Callbacks(c, kinds) == SelectSeq(c.cb, LAMBDA e : e.kind \in kinds)

TxCallbacks(c) == Callbacks(c, {"TX", "TX_FAIL"})

\* tx_do_schedule handed a frame to the tx state machine in the step to c
Loaded(c) == c.in_transmit = 1 /\ (cd.in_transmit = 0 \/ c.tx_pull_pos # cd.tx_pull_pos)

TxHistory(c, g) ==
    [g EXCEPT !.starts = (IF TxCallbacks(c) # <<>> THEN 0 ELSE @)
                         + (IF Loaded(c) THEN 1 ELSE 0),
              !.loaded = IF Loaded(c) THEN @ \cup {c.tx_pull_pos} ELSE @]

\* The step's effect on the controller, with the log of TX/TX_FAIL callbacks
Becomes(c, g) ==
    /\ cd' = c
    /\ reported' = reported \o [i \in 1 .. Len(TxCallbacks(c)) |-> TxCallbacks(c)[i].msg]
    /\ gh' = TxHistory(c, g)

(***************************************************************************)
(* Foreground: can2040_check_transmit and can2040_transmit                 *)
(***************************************************************************)
\* a - b in uint32_t arithmetic, as its two 16-bit halves
U32Sub(a, b) ==
    LET lo == (a % Half) - (b % Half)
        borrow == IF lo < 0 THEN 1 ELSE 0
        hi == (a \div Half) - (b \div Half) - borrow
    IN [hi |-> (hi + Half) % Half, lo |-> (lo + Half) % Half]

\* tx_push_pos - tx_pull_pos
Pending(c) == U32Sub(c.tx_push_pos, c.tx_pull_pos)

\* Faulty variant: pending > ARRAY_SIZE(cd->tx_queue)
tx_queue_overfull(c) == Pending(c).hi > 0 \/ Pending(c).lo > QueueSize

\* pending >= ARRAY_SIZE(cd->tx_queue)
tx_queue_full(c) == Pending(c).hi > 0 \/ Pending(c).lo >= QueueSize

can2040_check_transmit(c) == ~tx_queue_full(c)

CheckTransmit ==
    /\ isr = "none" /\ fg.pc = "idle"
    /\ fg' = [fg EXCEPT !.ret = IF can2040_check_transmit(cd) THEN 1 ELSE 0]
    /\ cd' = Enter
    /\ UNCHANGED <<isr, wire, bus, accepted, reported, gh>>

\* The application calls can2040_transmit(cd, m)
TxCall(m) ==
    /\ isr = "none" /\ fg.pc = "idle"
    /\ Len(accepted) < MaxTransmits \/ cd.tx_push_pos - cd.tx_pull_pos \notin 0 .. (QueueSize - 1)
    /\ fg' = [pc |-> "call", msg |-> m, push |-> 0, ret |-> 0]
    /\ cd' = Enter
    /\ UNCHANGED <<isr, wire, bus, accepted, reported, gh>>

\* Read both counters; reject when the queue is full
TxCheck ==
    /\ isr = "none" /\ fg.pc = "call"
    /\ IF tx_queue_full(cd)
       THEN fg' = [FgIdle EXCEPT !.ret = -1]
       ELSE fg' = [fg EXCEPT !.pc = "copy", !.push = cd.tx_push_pos]
    /\ cd' = Enter
    /\ UNCHANGED <<isr, wire, bus, accepted, reported, gh>>

\* Copy msg into qt->msg
TxCopy ==
    /\ isr = "none" /\ fg.pc = "copy"
    /\ cd' = [Enter EXCEPT !.tx_queue[tx_qpos(fg.push)].msg = transmit_msg(fg.msg)]
    /\ fg' = [fg EXCEPT !.pc = "stuff"]
    /\ UNCHANGED <<isr, wire, bus, accepted, reported, gh>>

\* Calculate crc and stuff bits
TxStuff ==
    /\ isr = "none" /\ fg.pc = "stuff"
    /\ cd' = [Enter EXCEPT !.tx_queue[tx_qpos(fg.push)] = transmit_slot(@.msg)]
    /\ fg' = [fg EXCEPT !.pc = "submit"]
    /\ UNCHANGED <<isr, wire, bus, accepted, reported, gh>>

\* Submit: writel(&cd->tx_push_pos, tx_push_pos + 1)
TxSubmit ==
    /\ isr = "none" /\ fg.pc = "submit"
    /\ cd' = [Enter EXCEPT !.tx_push_pos = fg.push + 1]
    /\ accepted' = Append(accepted, cd.tx_queue[tx_qpos(fg.push)].msg)
    /\ fg' = [fg EXCEPT !.pc = "kick"]
    /\ UNCHANGED <<isr, wire, bus, reported, gh>>

\* Faulty variant: the kick does not look at parse_state
TxKickAnyState ==
    /\ isr = "none" /\ fg.pc = "kick"
    /\ Becomes(tx_do_schedule(Enter), gh)
    /\ fg' = FgIdle
    /\ UNCHANGED <<isr, wire, bus, accepted>>

\* Kick transmitter, with interrupts disabled; return 0
TxKick ==
    /\ isr = "none" /\ fg.pc = "kick"
    /\ Becomes(IF cd.parse_state = MS_START THEN tx_do_schedule(Enter) ELSE Enter, gh)
    /\ fg' = FgIdle
    /\ UNCHANGED <<isr, wire, bus, accepted>>

(***************************************************************************)
(* Interrupt handlers                                                      *)
(***************************************************************************)
\* pio_sync_check_idle: the sync state machine has raised irq 0.  At most
\* one byte is still waiting for the DMA interrupt at that time.
pio_sync_check_idle == Len(wire) < 16

can2040_pio_irq_handler ==
    /\ isr = "none"
    /\ cd.pio_inte0 /\ pio_sync_check_idle
    /\ cd' = IF cd.parse_state # MS_START
             THEN [Enter EXCEPT !.dma_forced = TRUE]
             ELSE Enter
    /\ UNCHANGED <<isr, fg, wire, bus, accepted, reported, gh>>

\* can2040_dma_irq_handler, forced irq from the pio irq handler
DmaIrqForced ==
    /\ isr = "none"
    /\ cd.dma_forced
    /\ LET c1 == [Enter EXCEPT !.dma_forced = FALSE]
       IN Becomes(IF c1.parse_state # MS_START /\ pio_sync_check_idle
                  THEN data_state_go_idle(c1)
                  ELSE c1, gh)
    /\ UNCHANGED <<isr, fg, wire, bus, accepted>>

\* Recessive bits at the end of the delivered stream once byte b follows n of them
RECURSIVE TrailingOnes(_)
TrailingOnes(b) == IF b % 2 = 0 THEN 0 ELSE 1 + TrailingOnes(b \div 2)

OnesCap == WordBits + SyncIdleSamples

OnesAfter(n, b) ==
    LET r == IF b = 255 THEN n + 8 ELSE TrailingOnes(b)
    IN IF r > OnesCap THEN OnesCap ELSE r

\* The process_rx loop after an iteration left the controller as c: when the
\* next unstuf_pull_bits needs more data the loop breaks and the handler
\* returns, else the handler stays in the loop
LoopOn(c) ==
    LET r == unstuf_pull_bits(c.unstuf)
    IN IF r.ret = 1
       THEN [cd |-> [c EXCEPT !.unstuf = r.bu], isr |-> "none"]
       ELSE [cd |-> c, isr |-> "rx"]

\* can2040_dma_irq_handler, a received byte: process_rx up to its loop
DmaIrqByte ==
    /\ isr = "none"
    /\ ~cd.dma_forced
    /\ Len(wire) >= 8
    /\ LET l == LoopOn([Enter EXCEPT !.unstuf = unstuf_add_bits(@, ByteOf(wire), 8)])
       IN cd' = l.cd /\ isr' = l.isr
    /\ wire' = DropBits(wire, 8)
    /\ gh' = [gh EXCEPT !.ones = OnesAfter(@, ByteOf(wire))]
    /\ UNCHANGED <<fg, bus, accepted, reported>>

Pulled == unstuf_pull_bits(cd.unstuf)

AfterPull == [Enter EXCEPT !.unstuf = Pulled.bu]

\* What the field just pulled says about the frame being received
FieldHistory(data) ==
    CASE cd.parse_state = MS_START ->
             [gh EXCEPT !.crc = "none", !.ack = "none",
                        !.rejected = (data \div 16) % 8 # 0]
      [] cd.parse_state = MS_CRC ->
             [gh EXCEPT !.crc = IF Word(data) = cd.parse_crc THEN "match" ELSE "differ"]
      [] cd.parse_state = MS_ACK ->
             [gh EXCEPT !.ack = IF data = 2 THEN "match" ELSE "differ"]
      [] OTHER -> gh

\* process_rx loop: pulled the next field - process it
RxField ==
    /\ isr = "rx" /\ Pulled.ret = 0
    /\ LET l == LoopOn(data_state_update(AfterPull, Pulled.bu.unstuffed_bits))
       IN Becomes(l.cd, FieldHistory(Pulled.bu.unstuffed_bits)) /\ isr' = l.isr
    /\ UNCHANGED <<fg, wire, bus, accepted>>

\* process_rx loop: 6 consecutive high bits.  A restarted sync state
\* machine samples until it has counted the bus idle again.
RxSixHigh ==
    /\ isr = "rx" /\ Pulled.ret = -1
    /\ LET l == LoopOn(data_state_go_idle(AfterPull))
       IN /\ Becomes(l.cd, gh) /\ isr' = l.isr
          /\ wire' = IF cd.pio_sync_free /\ ~l.cd.pio_sync_free
                     THEN wire \o Ones(SyncIdleSamples)
                     ELSE wire
    /\ UNCHANGED <<fg, bus, accepted>>

\* process_rx loop: 6 consecutive low bits
RxSixLow ==
    /\ isr = "rx" /\ Pulled.ret = -2
    /\ LET l == LoopOn(data_state_go_error(AfterPull))
       IN Becomes(l.cd, gh) /\ isr' = l.isr
    /\ UNCHANGED <<fg, wire, bus, accepted>>

(***************************************************************************)
(* Bus events                                                              *)
(***************************************************************************)
\* All full bytes are delivered and the bus has been recessive since
BusIdle == isr = "none" /\ Len(wire) < 8 /\ bus < MaxEvents

\* SM3 has shifted out its fifo, or has stopped on a lost bit (irq wait 3)
TxDone == [mode |-> "done", data |-> <<>>]

\* A dominant bit on the bus: SM3 starts if it was waiting for bus idle, the
\* sync state machine reloads its bit counter
BusStarts(c) ==
    [c EXCEPT !.pio_tx = IF @.mode = "frame" THEN TxDone ELSE @, !.pio_sync_free = FALSE,
              !.cb = <<>>, !.cb_pull = <<>>]

\* Stuffed length of the frame in the head slot (the ack slot follows it)
HeadBits(c) == Stuffed[FrameOf(c.tx_queue[tx_qpos(c.tx_pull_pos)].msg)].bitpos

PutOnBus(s) ==
    /\ wire' = wire \o Sampled(s)
    /\ bus' = bus + 1
    /\ cd' = BusStarts(cd)
    /\ UNCHANGED <<isr, fg, accepted, reported, gh>>

\* SM3 sends the queued words once the bus is idle; another node may
\* acknowledge
BusLoopback(ack) ==
    /\ BusIdle
    /\ cd.pio_tx.mode = "frame" /\ Len(cd.pio_tx.data) > 0
    /\ \E k \in {HeadBits(cd)} :
          \E s \in {FrameOnBus(cd.pio_tx.data,
                               IF k < Len(cd.pio_tx.data) * 32
                               THEN k ELSE Len(cd.pio_tx.data) * 32, ack)} :
              PutOnBus(s)

\* Another node sends frame f (and wins arbitration)
BusFrame(f, ack) ==
    /\ BusIdle
    /\ \E bs \in {Stuffed[f]} :
          \E s \in {FrameOnBus([i \in 1 .. StuffedWords |-> bs.buf[i - 1]], bs.bitpos, ack)} :
              PutOnBus(s)

\* Traffic the parser cannot follow (an error flag of six dominant bits, then
\* alternating bits) for n bytes, while this node has nothing to send
BusGarbage(n) ==
    /\ BusIdle
    /\ cd.pio_tx.mode # "frame"
    /\ PutOnBus([i \in 1 .. (8 * n) |-> IF i <= 6 THEN 0 ELSE i % 2])

\* The sync state machine's idle counter wraps after a long idle period:
\* it starts to clock the rx state machine on the idle bus
SyncOverflow ==
    /\ BusIdle
    /\ cd.pio_tx.mode # "frame"
    /\ ~cd.pio_sync_free
    /\ cd' = [Enter EXCEPT !.pio_sync_free = TRUE]
    /\ bus' = bus + 1
    /\ UNCHANGED <<isr, fg, wire, accepted, reported, gh>>

\* The free-running sync state machine samples eight more recessive bits
IdleSample ==
    /\ isr = "none" /\ Len(wire) < 8
    /\ cd.pio_sync_free
    /\ wire' = wire \o Ones(8)
    /\ cd' = Enter
    /\ UNCHANGED <<isr, fg, bus, accepted, reported, gh>>

(***************************************************************************)
(* The system                                                              *)
(***************************************************************************)
Foreground ==
    \/ TxCheck
    \/ TxCopy
    \/ TxStuff
    \/ TxSubmit
    \/ TxKick

Interrupts ==
    \/ can2040_pio_irq_handler
    \/ DmaIrqForced
    \/ DmaIrqByte
    \/ RxField
    \/ RxSixHigh
    \/ RxSixLow

Transmission == \E ack \in {0, 1} : BusLoopback(ack)

Next ==
    \/ CheckTransmit
    \/ \E m \in TxInputs(Len(accepted)) : TxCall(m)
    \/ Foreground
    \/ Interrupts
    \/ Transmission
    \/ \E r \in RxFrames : BusFrame(r[1], r[2])
    \/ \E n \in GarbageLens : BusGarbage(n)
    \/ SyncOverflow
    \/ IdleSample

Spec == Init /\ [][Next]_vars

(***************************************************************************)
(* Encoding and decoding one frame: can2040_transmit encodes a message, the *)
(* tx state machine sends the slot, another node acknowledges, and the     *)
(* receive path parses the bits byte by byte.                              *)
(***************************************************************************)
RtIds == {0, 2047, 291, 1365}   \* 0, 0x7ff, 0x123, 0x555

\* Payloads: all 0x00, all 0xff, and bytes whose runs cross the chunk borders
RtPayloads ==
    {NoData, [i \in 1 .. MaxDataLen |-> 255],
     <<0, 255, 15, 240, 31, 224, 170, 85>>, <<165, 7, 192, 0, 1, 255, 254, 60>>}

MaxDlc == 15   \* largest value of the 4-bit dlc field (data & 0xf)

RtMsgs == {Msg(a, n, p) : a \in RtIds, n \in 0 .. MaxDlc, p \in RtPayloads}

\* The message of this run: given to can2040_transmit, or sent by another node
RtInput == gh.input

RtInit ==
    /\ cd = can2040_start(CdZero)
    /\ isr = "none"
    /\ fg = FgIdle
    /\ wire = Ones(SyncIdleSamples)
    /\ bus = 0
    /\ accepted = <<>>
    /\ reported = <<>>
    /\ \E m \in RtMsgs : gh = [input |-> m] @@ GhZero

\* The application calls can2040_transmit once
RtCall == accepted = <<>> /\ bus = 0 /\ TxCall(RtInput)

\* Another node sends the message as a frame whose header carries the dlc as
\* given (up to MaxDlc) with at most MaxDataLen bytes, and it is acknowledged
RtForeign ==
    /\ BusIdle /\ bus = 0
    /\ fg.pc = "idle" /\ accepted = <<>>
    /\ \E bs \in {bs_frame(RtInput.addr * 128 + RtInput.data_len, RtInput.d1,
                           transmit_msg(RtInput).data_len)} :
          \E s \in {FrameOnBus([i \in 1 .. StuffedWords |-> bs.buf[i - 1]], bs.bitpos, 0)} :
              PutOnBus(s)

\* Stuffed length of the frame can2040_transmit wrote for the message qm
RtBits(qm) == bs_frame(qm.addr * 128 + qm.data_len, qm.d1, qm.data_len).bitpos

\* SM3 sends the queued words once the bus is idle and another node
\* acknowledges in the ack slot
RtLoopback ==
    /\ BusIdle
    /\ cd.pio_tx.mode = "frame" /\ Len(cd.pio_tx.data) > 0
    /\ \E k \in {RtBits(cd.tx_queue[tx_qpos(cd.tx_pull_pos)].msg)} :
          \E s \in {FrameOnBus(cd.pio_tx.data, k, 0)} :
              PutOnBus(s)

\* The idle irq of the sync state machine, raised nine bit times after the
\* last dominant bit: every full byte sampled before it has been processed
RtIdleIrq == Len(wire) < 8 /\ can2040_pio_irq_handler

RtNext ==
    \/ RtCall
    \/ RtForeign
    \/ Foreground
    \/ RtIdleIrq
    \/ DmaIrqForced
    \/ DmaIrqByte
    \/ RxField
    \/ RxSixHigh
    \/ RtLoopback

RoundTripSpec == RtInit /\ [][RtNext]_vars

(***************************************************************************)
(* Reception when the cpu cannot keep up with the rx fifo                  *)
(***************************************************************************)
\* The rx state machine stalls on a full fifo: fdebug records RXSTALL and the
\* bits of one byte pass on the bus unsampled
RxStall ==
    /\ isr = "none" /\ Len(wire) >= 8
    /\ ~cd.pio_rxstall
    /\ cd' = [Enter EXCEPT !.pio_rxstall = TRUE]
    /\ wire' = DropBits(wire, 8)
    /\ UNCHANGED <<isr, fg, bus, accepted, reported, gh>>

\* The frames other nodes send here: those of RxFrames and frames with data
StallFrames == RxFrames \cup {<<FrameOf(transmit_msg(m)), a>> : m \in TxMsgs, a \in {0, 1}}

StallNext ==
    \/ RxStall
    \/ \E r \in StallFrames : BusFrame(r[1], r[2])
    \/ \E n \in GarbageLens : BusGarbage(n)
    \/ SyncOverflow
    \/ IdleSample
    \/ Interrupts

StallSpec == Init /\ [][StallNext]_vars

(***************************************************************************)
(* The pio irq handler at a higher priority than the dma irq handler       *)
(***************************************************************************)
\* can2040_pio_irq_handler taken between two iterations of the process_rx
\* loop: the forced dma irq stays pending until the dma irq handler returns
PioIrqPreempts ==
    /\ isr = "rx"
    /\ cd.pio_inte0 /\ pio_sync_check_idle
    /\ cd.parse_state # MS_START
    /\ ~cd.dma_forced
    /\ cd' = [cd EXCEPT !.dma_forced = TRUE]
    /\ UNCHANGED <<isr, fg, wire, bus, accepted, reported, gh>>

NestedNext == PioIrqPreempts \/ Next

NestedSpec == Init /\ [][NestedNext]_vars

(***************************************************************************)
(* Properties                                                              *)
(***************************************************************************)
\* The handler that ran last invoked a callback of one of the kinds
HasKind(c, kinds) == \E i \in 1 .. Len(c.cb) : c.cb[i].kind \in kinds

\* The slot at the head of the transmit queue
HeadSlot == cd.tx_queue[cd.tx_pull_pos % QueueSize]

\* The pulled eof bits (bits count_unstuff .. 5 of the field) are all recessive
EofRecessive(bu) ==
    \A k \in bu.count_unstuff .. 5 : (bu.unstuffed_bits \div Pow2(k)) % 2 = 1

\* This step is data_state_go_idle reached from MS_EOF with the pulled eof
\* bits recessive: from the process_rx loop or from the forced dma irq
FrameCompletes ==
    /\ cd.parse_state = MS_EOF
    /\ \/ isr = "rx" /\ Pulled.ret = -1 /\ EofRecessive(Pulled.bu)
       \/ /\ isr = "none" /\ cd.dma_forced /\ ~cd'.dma_forced
          /\ pio_sync_check_idle /\ EofRecessive(cd.unstuf)

\* A transmission is in progress and the received frame equals the head slot
HeadMatches ==
    /\ cd.in_transmit = 1
    /\ Word(HeadSlot.crc) = cd.parse_crc
    /\ HeadSlot.msg = cd.parse_msg

\* C1: in every reachable state pending = tx_push_pos - tx_pull_pos, computed
\* in unsigned 32-bit arithmetic, lies in 0 .. capacity of tx_queue.
C1_PendingWithinCapacity ==
    LET pending == U32Sub(cd.tx_push_pos, cd.tx_pull_pos)
    IN pending.hi = 0 /\ pending.lo <= QueueSize

\* C2: the frames reported by TX and TX_FAIL callbacks are, in order, a prefix
\* of the accepted frames: enqueue order, nothing twice, nothing not enqueued.
C2_CallbacksPrefixOfAccepted ==
    /\ Len(reported) <= Len(accepted)
    /\ \A i \in 1 .. Len(reported) : i <= Len(accepted) => reported[i] = accepted[i]

\* C3: can2040_transmit called while the queue holds capacity pending frames
\* returns -1 and leaves tx_push_pos, tx_pull_pos, every slot, in_transmit and
\* cancel_count alone, starts no transmission and emits no callback.
C3_FullQueueRejects ==
    [][(fg.pc = "call" /\ fg'.pc # "call"
            /\ cd.tx_push_pos - cd.tx_pull_pos = QueueSize)
       => /\ fg'.pc = "idle" /\ fg'.ret = -1
          /\ cd'.tx_push_pos = cd.tx_push_pos /\ cd'.tx_pull_pos = cd.tx_pull_pos
          /\ cd'.tx_queue = cd.tx_queue
          /\ cd'.in_transmit = cd.in_transmit /\ cd'.cancel_count = cd.cancel_count
          /\ cd'.pio_tx = cd.pio_tx
          /\ cd'.cb = <<>> /\ reported' = reported /\ accepted' = accepted]_vars

\* A call was just rejected with all four slots pending
C3_Witness ==
    /\ fg.pc = "idle" /\ fg.ret = -1
    /\ cd.tx_push_pos - cd.tx_pull_pos = QueueSize
    /\ Len(accepted) = QueueSize /\ reported = <<>>

\* Accepted frames still awaiting their TX or TX_FAIL callback
Awaiting == IF Len(accepted) > Len(reported) THEN Len(accepted) - Len(reported) ELSE 0

\* C4: can2040_check_transmit is true exactly when fewer than capacity
\* accepted frames await their callback, can2040_transmit proceeds exactly
\* then, and right after a TX or TX_FAIL callback check_transmit is true.
C4_CheckTransmitIffFree ==
    /\ can2040_check_transmit(cd) <=> Awaiting < QueueSize
    /\ HasKind(cd, {"TX", "TX_FAIL"}) => can2040_check_transmit(cd)

\* C5 as stated: a frame that completes reception produces exactly one
\* callback: TX with the head frame (tx_pull_pos advanced by one, cancel_count
\* cleared) when a transmission is in progress and the frame equals the head
\* slot, else RX with the parsed frame.
C5_ExactlyOneCallback ==
    [][FrameCompletes
       => /\ Len(cd'.cb) = 1
          /\ IF HeadMatches
             THEN /\ cd'.cb[1] = [kind |-> "TX", msg |-> HeadSlot.msg]
                  /\ cd'.tx_pull_pos = cd.tx_pull_pos + 1
                  /\ cd'.cancel_count = 0
             ELSE cd'.cb[1] = [kind |-> "RX", msg |-> cd.parse_msg]]_vars

\* C5: a frame that completes reception produces exactly one RX or TX callback:
\* TX with the head frame (tx_pull_pos advanced by one, cancel_count cleared)
\* when a transmission is in progress and the frame equals the head slot, else
\* RX with the parsed frame, never RX for a self-transmitted frame.  After
\* the RX callback the same handler may report TX_FAIL for the head frame.
C5_OneRxOrTxCallback ==
    [][FrameCompletes
       => IF HeadMatches
          THEN /\ cd'.cb = <<[kind |-> "TX", msg |-> HeadSlot.msg]>>
               /\ cd'.tx_pull_pos = cd.tx_pull_pos + 1
               /\ cd'.cancel_count = 0
          ELSE \/ cd'.cb = <<[kind |-> "RX", msg |-> cd.parse_msg]>>
               \/ /\ cd'.cb = <<[kind |-> "RX", msg |-> cd.parse_msg],
                                [kind |-> "TX_FAIL", msg |-> HeadSlot.msg]>>
                  /\ cd.tx_push_pos # cd.tx_pull_pos
                  /\ cd.cancel_count > CancelLimit]_vars

\* A received frame was reported RX and the head frame TX_FAIL by one handler
C5_Witness ==
    /\ Len(cd.cb) = 2
    /\ cd.cb[1].kind = "RX" /\ cd.cb[2].kind = "TX_FAIL"
    /\ cd.parse_state = MS_START

\* C6: an RX or TX callback is emitted only for a frame whose crc field
\* equalled the local crc, whose next 2-bit field was 0b10 and whose pulled
\* eof bits were recessive; a crc field that differs cancels the pending ack
\* injection, enters MS_DISCARD and emits no callback.
C6_CallbackOnlyForValidFrame ==
    [][/\ HasKind(cd', {"RX", "TX"})
          => /\ gh.crc = "match" /\ gh.ack = "match"
             /\ cd.parse_state = MS_EOF
             /\ EofRecessive(IF isr = "rx" THEN Pulled.bu ELSE cd.unstuf)
       /\ (isr = "rx" /\ Pulled.ret = 0 /\ cd.parse_state = MS_CRC
               /\ Word(Pulled.bu.unstuffed_bits) # cd.parse_crc)
          => /\ cd'.parse_state = MS_DISCARD
             /\ ~cd'.pio_ack
             /\ cd'.cb = <<>>]_vars

\* A frame with a wrong crc field was discarded while an ack was prepared
C6_Witness ==
    /\ gh.crc = "differ"
    /\ cd.parse_state = MS_DISCARD
    /\ ~cd.pio_ack /\ cd.pio_tx.mode = "off"
    /\ cd.cb = <<>>

\* C7 as stated: once at least 11 recessive bits in a row have been delivered
\* to the receive path (and the handler has returned), parse_state is MS_START.
C7_RecessiveRunIsStart ==
    (isr = "none" /\ gh.ones >= 11) => cd.parse_state = MS_START

\* C7: once at least 11 recessive bits in a row have been delivered and the
\* handler has returned, parse_state is MS_START, or, after at least 31
\* recessive bits in a row, MS_DISCARD with the sync state machine reset and
\* the idle irq enabled to return it to MS_START.
C7_RecessiveRunIsStartOrReset ==
    (isr = "none" /\ gh.ones >= 11)
    => \/ cd.parse_state = MS_START
       \/ /\ cd.parse_state = MS_DISCARD
          /\ gh.ones >= WordBits - 1
          /\ cd.pio_inte0 /\ ~cd.pio_sync_free

\* Eleven recessive bits in a row were delivered to a parser that had left
\* MS_START
C7_Witness ==
    /\ isr = "none" /\ gh.ones >= 11 /\ gh.ones < WordBits
    /\ cd.parse_state = MS_START
    /\ gh.rejected

\* The field pulled in MS_START has one of the rtr, ide, reserved bits set
HeaderRefused ==
    /\ isr = "rx" /\ Pulled.ret = 0 /\ cd.parse_state = MS_START
    /\ (Pulled.bu.unstuffed_bits \div 16) % 8 # 0

\* C8: a header with rtr, ide or the reserved bit set moves the parser to
\* MS_DISCARD, aborts a transmission in progress and emits no RX/TX callback;
\* every further field leaves it in MS_DISCARD, which it leaves only for
\* MS_START on six recessive bits or the idle irq.
C8_UnsupportedHeaderDiscards ==
    [][/\ HeaderRefused
          => /\ cd'.parse_state = MS_DISCARD
             /\ cd'.in_transmit = 0 /\ cd'.pio_tx.mode = "off"
             /\ ~HasKind(cd', {"RX", "TX"})
       /\ (cd.parse_state = MS_DISCARD /\ isr = "rx" /\ Pulled.ret = 0)
          => cd'.parse_state = MS_DISCARD /\ ~HasKind(cd', {"RX", "TX"})
       /\ (cd.parse_state = MS_DISCARD /\ cd'.parse_state # MS_DISCARD)
          => /\ cd'.parse_state = MS_START
             /\ \/ isr = "rx" /\ Pulled.ret = -1
                \/ cd.dma_forced /\ ~cd'.dma_forced]_vars

\* A remote frame aborted the transmission of a queued frame
C8_Witness ==
    /\ gh.rejected /\ cd.parse_state = MS_DISCARD
    /\ gh.starts > 0 /\ cd.in_transmit = 0
    /\ Len(accepted) > 0 /\ reported = <<>>

\* C9: a frame is reported TX_FAIL only after its own transmission was started
\* and aborted more than 32 times since the last TX/TX_FAIL callback.
C9_FailOnlyAfterOwnAborts ==
    [][HasKind(cd', {"TX_FAIL"}) => gh.starts > CancelLimit]_vars

\* C10: under fairness every accepted frame eventually has its transmission
\* started and then receives its TX or TX_FAIL callback.  The callback
\* removes the frame from the queue, so a run refutes this as soon as a frame
\* is reported whose transmission was never started.
C10_ReportedAfterTransmissionStarted ==
    \A k \in 1 .. Len(reported) : (k - 1) \in gh.loaded

\* The frame has been sent and every handler it triggers has returned
RtQuiet ==
    /\ accepted # <<>> /\ fg.pc = "idle"
    /\ bus >= 1 /\ isr = "none" /\ Len(wire) < 8
    /\ ~cd.dma_forced
    /\ ~(cd.pio_inte0 /\ cd.parse_state # MS_START)

\* C11: the stuffed stream can2040_transmit encodes for a message with 11-bit
\* id and dlc 0..8, fed to the receive path byte by byte after bus idle with a
\* dominant ack slot and recessive eof, is parsed into a frame equal to the
\* message in id, dlc and payload, with the parser's crc equal to the slot's.
C11_EncodeDecodeRoundTrip ==
    /\ accepted # <<>> /\ HasKind(cd, {"RX", "TX"})
          => /\ cd.parse_msg = transmit_msg(RtInput)
             /\ cd.parse_crc = Word(cd.tx_queue[0].crc)
    /\ RtQuiet
          => /\ reported = <<transmit_msg(RtInput)>>
             /\ cd.parse_msg = transmit_msg(RtInput)
             /\ cd.parse_crc = Word(cd.tx_queue[0].crc)

\* The frame with id 0x7ff and eight bytes 0xff went through encoder and parser
C11_Witness ==
    /\ RtQuiet
    /\ RtInput = Msg(2047, 8, [i \in 1 .. MaxDataLen |-> 255])
    /\ cd.parse_msg = RtInput
    /\ reported = <<RtInput>>

\* The slot can2040_transmit is filling or has filled in this run
RtSlot == cd.tx_queue[0]

\* The stuffed words of the slot in sending order
RtWords == [i \in 1 .. StuffedWords |-> RtSlot.stuffed_data[i - 1]]

\* Bits first .. last of the words hold no run of more than five equal bits
NoLongRun(data, first, last) ==
    \A j \in first .. (last - 5) :
        \E d \in 1 .. 5 : WordsBit(data, j + d) # WordsBit(data, j)

\* Unstuffed length of a frame through the crc delimiter
RawBits(qm) == 19 + 8 * qm.data_len + 15 + 1

\* C12: the bit stream can2040_transmit writes into stuffed_data contains,
\* from the start-of-frame bit through the last crc bit (chunk boundaries of
\* bs_push included), no run of more than five consecutive equal bits.
C12_NoSixEqualBits ==
    fg.pc = "submit" => NoLongRun(RtWords, 0, RtBits(RtSlot.msg) - 2)

\* The frame with id 0x7ff and eight bytes 0xff is stuffed: stuff bits were added
C12_Witness ==
    /\ fg.pc = "submit"
    /\ RtSlot.msg = Msg(2047, 8, [i \in 1 .. MaxDataLen |-> 255])
    /\ RtBits(RtSlot.msg) >= RawBits(RtSlot.msg) + 12

\* C13: the increment of tx_pull_pos that frees a slot happens after the TX
\* (tx_finalize) or TX_FAIL (give-up path of tx_do_schedule) callback for that
\* slot has been invoked: the callback still sees the slot's position in
\* tx_pull_pos, which is one below the value the handler leaves.
C13_PullAdvancesAfterCallback ==
    \A i \in 1 .. Len(cd.cb) :
        cd.cb[i].kind \in {"TX", "TX_FAIL"} => cd.cb_pull[i] + 1 = cd.tx_pull_pos

\* C14: tx_push_pos + 1 is written only after the slot's message, crc, stuffed
\* words and word count are stored, so an interrupt handler that observes
\* tx_push_pos # tx_pull_pos and schedules the head slot hands a published,
\* completely written slot to the tx state machine.
C14_PushAdvancesAfterSlotWritten ==
    [][/\ cd'.tx_push_pos # cd.tx_push_pos
            => /\ cd'.tx_push_pos = cd.tx_push_pos + 1
               /\ cd.tx_queue[tx_qpos(cd.tx_push_pos)] = transmit_slot(transmit_msg(fg.msg))
               /\ cd'.tx_queue = cd.tx_queue
       /\ Loaded(cd')
            => /\ cd'.tx_pull_pos < cd'.tx_push_pos
               /\ cd'.tx_queue[tx_qpos(cd'.tx_pull_pos)]
                      = transmit_slot(accepted'[cd'.tx_pull_pos + 1])
               /\ cd'.pio_tx.mode = "frame"
               /\ Len(cd'.pio_tx.data) > 0]_vars

\* The field just pulled in MS_ACK is not 0b10
AckMalformed ==
    isr = "rx" /\ Pulled.ret = 0 /\ cd.parse_state = MS_ACK /\ Pulled.bu.unstuffed_bits # 2

\* C15: an ERROR callback is emitted only when the 2-bit field consumed in
\* MS_ACK is not 0b10 and the rx stall flag is set; then the parser is in
\* DISCARD, all four state machines are re-initialised and the callback
\* carries error code 0 with a zeroed frame.  A malformed ack field without a
\* stall gives DISCARD and no callback.
C15_ErrorOnlyOnStalledAck ==
    [][/\ HasKind(cd', {"ERROR"}) => AckMalformed /\ pio_rx_check_stall(cd)
       /\ AckMalformed /\ pio_rx_check_stall(cd)
            => /\ cd'.parse_state = MS_DISCARD
               /\ cd'.pio_tx = TxOff /\ ~cd'.pio_ack
               /\ ~cd'.pio_rxstall /\ ~cd'.pio_sync_free
               /\ cd'.cb = <<[kind |-> "ERROR", msg |-> ZeroMsg, code |-> 0]>>
       /\ AckMalformed /\ ~pio_rx_check_stall(cd)
            => cd'.parse_state = MS_DISCARD /\ cd'.cb = <<>>]_vars

\* An unacknowledged frame ended after a stall: ERROR was reported
C15_Witness ==
    /\ HasKind(cd, {"ERROR"})
    /\ gh.crc = "match" /\ gh.ack = "differ"
    /\ cd.parse_state = MS_DISCARD /\ ~cd.pio_rxstall

\* This step is executed by the foreground inside can2040_transmit
ForegroundStep == fg.pc # "idle" /\ fg' # fg

\* C16: tx_pull_pos is written only in interrupt context and tx_push_pos only
\* by the foreground: no foreground step of can2040_transmit (its
\* interrupt-masked call of tx_do_schedule included) changes tx_pull_pos or
\* emits a callback, and no interrupt handler step changes tx_push_pos.
C16_CountersSingleWriter ==
    [][/\ ForegroundStep
            => /\ cd'.tx_pull_pos = cd.tx_pull_pos
               /\ cd'.cb = <<>> /\ reported' = reported
       /\ cd'.tx_push_pos # cd.tx_push_pos
            => ForegroundStep /\ fg.pc = "submit"]_vars

\* The states the claim allows parse_state to change to
NextStates(st) ==
    CASE st = MS_START -> {MS_DATA, MS_CRC, MS_DISCARD}
      [] st = MS_DATA -> {MS_DATA, MS_CRC, MS_DISCARD, MS_START}
      [] st = MS_CRC -> {MS_ACK, MS_DISCARD, MS_START}
      [] st = MS_ACK -> {MS_EOF, MS_DISCARD, MS_START}
      [] st = MS_EOF -> {MS_DISCARD, MS_START}
      [] st = MS_DISCARD -> {MS_DISCARD, MS_START}

\* data_state_go_idle is about to take its counter-overflow path
OverflowReset ==
    /\ cd.parse_state = MS_START
    /\ Pulled.bu.count_stuff = 0 /\ Pulled.bu.stuffed_bits = Ones32

\* C17: parse_state changes only along the edges of NextStates; six recessive
\* bits (or the idle irq outside START) lead to START except on the overflow
\* reset path of START, six dominant bits lead to DISCARD, and every field
\* completed in EOF or DISCARD leads to DISCARD.
C17_ParseStateEdges ==
    [][/\ cd'.parse_state # cd.parse_state
            => cd'.parse_state \in NextStates(cd.parse_state)
       /\ isr = "rx" /\ Pulled.ret = -1
            => cd'.parse_state = IF OverflowReset THEN MS_DISCARD ELSE MS_START
       /\ (/\ isr = "none" /\ cd.dma_forced /\ ~cd'.dma_forced
           /\ cd.parse_state # MS_START /\ pio_sync_check_idle)
            => cd'.parse_state = MS_START
       /\ isr = "rx" /\ Pulled.ret = -2
            => cd'.parse_state = MS_DISCARD
       /\ isr = "rx" /\ Pulled.ret = 0 /\ cd.parse_state \in {MS_EOF, MS_DISCARD}
            => cd'.parse_state = MS_DISCARD]_vars

\* Six recessive bits in START took the overflow reset path into DISCARD
C17_Witness ==
    /\ cd.parse_state = MS_DISCARD
    /\ cd.unstuf.stuffed_bits = Zero32 /\ cd.unstuf.count_unstuff = 8
    /\ gh.ones >= WordBits /\ ~cd.pio_sync_free /\ cd.pio_inte0

\* min(dlc, 8)
ClampDlc(dlc) == IF dlc > MaxDataLen THEN MaxDataLen ELSE dlc

\* The field just pulled in MS_START is a supported header
HeaderAccepted ==
    /\ isr = "rx" /\ Pulled.ret = 0 /\ cd.parse_state = MS_START
    /\ (Pulled.bu.unstuffed_bits \div Pow2(18)) % 2 = 0
    /\ (Pulled.bu.unstuffed_bits \div 16) % 8 = 0

\* C18: after a supported header the parser goes START to CRC when the header
\* dlc is 0 and otherwise enters DATA and consumes exactly min(dlc, 8) 8-bit
\* fields before entering CRC; the delivered data_len is min(dlc, 8), payload
\* bytes at index >= data_len are zero, and the local crc covers exactly the
\* header bits plus those data bytes.
C18_DataFieldsFollowDlc ==
    [][/\ HeaderAccepted
            => /\ cd'.parse_state
                     = IF Pulled.bu.unstuffed_bits % 16 = 0 THEN MS_CRC ELSE MS_DATA
               /\ cd'.parse_msg = Msg((Pulled.bu.unstuffed_bits \div 128) % 2048,
                                      ClampDlc(Pulled.bu.unstuffed_bits % 16), NoData)
               /\ cd'.parse_datapos = 0
       /\ isr = "rx" /\ Pulled.ret = 0 /\ cd.parse_state = MS_DATA
            => /\ cd'.parse_datapos = cd.parse_datapos + 1
               /\ cd'.parse_msg.d1[cd'.parse_datapos] = Pulled.bu.unstuffed_bits
               /\ cd'.parse_state = IF cd'.parse_datapos = ClampDlc(cd.parse_hdr % 16)
                                     THEN MS_CRC ELSE MS_DATA
       /\ cd.parse_state # MS_CRC /\ cd'.parse_state = MS_CRC
            => /\ cd'.parse_msg.data_len = ClampDlc(cd'.parse_hdr % 16)
               /\ cd'.parse_datapos = cd'.parse_msg.data_len
               /\ \A i \in 1 .. MaxDataLen :
                      i > cd'.parse_msg.data_len => cd'.parse_msg.d1[i] = 0
               /\ cd'.parse_crc
                     = Word(Field(bs_body(cd'.parse_hdr, cd'.parse_msg.d1,
                                          cd'.parse_msg.data_len).crc, 0, 15))
       /\ HasKind(cd', {"RX"})
            => cd'.cb = <<[kind |-> "RX", msg |-> transmit_msg(RtInput)]>>]_vars

\* Another node's frame with dlc 15 and bytes 0xff was delivered with 8 bytes
C18_Witness ==
    /\ HasKind(cd, {"RX"})
    /\ cd.parse_hdr % 16 = MaxDlc
    /\ cd.parse_msg = Msg(2047, MaxDataLen, [i \in 1 .. MaxDataLen |-> 255])

\* C19: process_rx terminates for every reachable controller state and
\* received byte.  Each pass of its loop starts with a positive field length
\* and consumes at least one of the 8 raw bits, no handler gives bits back,
\* and the loop is left exactly when unstuf_pull_bits needs more data: all
\* raw bits consumed (count_stuff = 0) and count_unstuff > 0.
C19_ProcessRxTerminates ==
    [][/\ isr = "rx"
            => /\ cd.unstuf.count_unstuff > 0
               /\ Pulled.bu.count_stuff < cd.unstuf.count_stuff
               /\ cd'.unstuf.count_stuff <= Pulled.bu.count_stuff
       /\ isr' = "rx"
            => /\ cd'.unstuf.count_stuff \in 1 .. 8
               /\ unstuf_pull_bits(cd'.unstuf).ret \in {0, -1, -2}
       /\ isr' = "none"
            => cd'.unstuf.count_stuff = 0 /\ cd'.unstuf.count_unstuff > 0]_vars

\* process_rx has returned in the middle of the eof field of a frame received
\* after a byte was lost
C19_Witness ==
    /\ isr = "none" /\ cd.pio_rxstall
    /\ cd.parse_state = MS_EOF
    /\ cd.unstuf.count_stuff = 0 /\ cd.unstuf.count_unstuff \in 1 .. 5

\* tx_do_schedule hands a frame to the tx state machine in this step
TransmissionStarted ==
    /\ cd'.in_transmit = 1
    /\ cd.in_transmit = 0 \/ (cd'.pio_tx.mode = "frame" /\ cd.pio_tx.mode # "frame")

\* This step calls data_state_go_idle outside MS_START
GoIdleStep ==
    /\ cd.parse_state # MS_START
    /\ \/ isr = "rx" /\ Pulled.ret = -1
       \/ isr = "none" /\ cd.dma_forced /\ ~cd'.dma_forced /\ pio_sync_check_idle

\* The interrupt-masked check of can2040_transmit finds the parser in START,
\* no transmission in progress and the queue non-empty
KickStarts ==
    /\ cd.parse_state = MS_START
    /\ cd.in_transmit = 0
    /\ cd.tx_push_pos # cd.tx_pull_pos

C21_InTransmitHeadQueued ==
    cd.in_transmit = 1
        => /\ cd.tx_push_pos # cd.tx_pull_pos
           /\ cd.tx_pull_pos < Len(accepted)
           /\ Len(reported) <= cd.tx_pull_pos
           /\ cd.tx_pull_pos < Len(accepted)
                => HeadSlot = transmit_slot(accepted[cd.tx_pull_pos + 1])

\* The slot at queue position p is published, holds the frame accepted at that
\* position, and is not the slot can2040_transmit is filling
SlotReadable(p) ==
    /\ p < cd.tx_push_pos
    /\ p < Len(accepted)
    /\ p < Len(accepted) => cd.tx_queue[tx_qpos(p)] = transmit_slot(accepted[p + 1])
    /\ fg.pc \in {"copy", "stuff", "submit"} => tx_qpos(fg.push) # tx_qpos(p)

\* This step is data_state_go_crc: the parser enters MS_CRC
EntersCrc == cd.parse_state \in {MS_START, MS_DATA} /\ cd'.parse_state = MS_CRC

\* C22: in every interleaving of can2040_transmit with the handlers, a slot
\* read for scheduling (tx_do_schedule), for the comparison of
\* tx_check_self_transmit or for a TX/TX_FAIL callback is published and not
\* overwritten, and is never the slot the foreground is filling.
C22_HandlersReadPublishedSlots ==
    [][cd' # cd
        => /\ TransmissionStarted => SlotReadable(cd'.tx_pull_pos)
           /\ \A i \in 1 .. Len(cd'.cb) :
                cd'.cb[i].kind \in {"TX", "TX_FAIL"} => SlotReadable(cd'.cb_pull[i] - 1)
           /\ cd.in_transmit = 1 /\ (FrameCompletes \/ EntersCrc)
                => SlotReadable(cd.tx_pull_pos)]_vars

\* The bus-idle interrupt is enabled exactly when the parser is not in START
IdleIrqTracksParser == cd.pio_inte0 <=> cd.parse_state # MS_START

\* This step is the forced branch of can2040_dma_irq_handler
ForcedIrqStep == isr = "none" /\ cd.dma_forced /\ ~cd'.dma_forced

\* C23: after can2040_start the bus-idle interrupt is enabled exactly when
\* parse_state is not START, the forced idle interrupt returns a parser left
\* outside START to START when the bus is idle, and a forced idle interrupt
\* taken in START changes no parser, unstuffer or transmit state.
C23_IdleIrqEnabledOutsideStart ==
    [][/\ IdleIrqTracksParser
       /\ IdleIrqTracksParser'
       /\ ForcedIrqStep /\ cd.parse_state # MS_START /\ pio_sync_check_idle
            => cd'.parse_state = MS_START
       /\ ForcedIrqStep /\ cd.parse_state = MS_START
            => cd' = [Enter EXCEPT !.dma_forced = FALSE]]_vars

\* The forced idle interrupt has been taken in START, with a transmission
\* scheduled by the six recessive bits that returned the parser to START
C23_Witness ==
    /\ cd.parse_state = MS_START /\ ~cd.pio_inte0
    /\ cd.dma_forced
    /\ cd.in_transmit = 1

\* pio_ack_inject ran in this step
AckArmed ==
    /\ cd'.pio_ack /\ cd'.pio_tx.mode = "ack"
    /\ ~cd.pio_ack \/ cd.pio_tx.mode # "ack"

\* A match key is loaded only while the parser is in CRC or ACK
AckPendingInCrcOrAck == cd.pio_ack => cd.parse_state \in {MS_CRC, MS_ACK}

\* C24: an ack injection is armed only on entering CRC for a frame that is
\* not the controller's own transmission in progress, and every exit from CRC
\* or ACK retracts it: none is pending in START, DATA, EOF or DISCARD.
C24_AckPendingOnlyInCrcAck ==
    [][/\ AckArmed => EntersCrc /\ cd'.in_transmit = 0 /\ ~(cd.in_transmit = 1 /\ tx_match(cd'))
       /\ AckPendingInCrcOrAck
       /\ AckPendingInCrcOrAck']_vars

====
